---- MODULE Spec2Model ----
(***************************************************************************)
(* A model of jduimage.Image: a handle owning one numpy array (data) and   *)
(* deriving shape, height, width and dim from it.  Arrays live in a heap   *)
(* of memory blocks; an ndarray is a view (block, offset, shape) so that   *)
(* slicing shares memory as numpy does.  Every method is one action that   *)
(* records the call, its exception and the library primitives it invoked   *)
(* in the variable last.                                                   *)
(***************************************************************************)
EXTENDS Integers, Sequences, FiniteSets, TLC

VARIABLES live, data, mem, fs, last, calls

vars == <<live, data, mem, fs, last, calls>>

(***************************************************************************)
(* Bounds of the model.                                                    *)
(***************************************************************************)
MaxDim == 2
Den == 2
(* The number of calls a run makes on the images it starts with. *)
MaxCalls == 1

(* Handle 1 is the image the methods are called on; handle 2 holds an      *)
(* Image a method returned, and is the other image of blend.               *)
Handles == {1, 2}
MemIds == {1, 2, 3}
Dims == 1..MaxDim

(* A rational argument is the numerator n of n/Den. *)
IntOf(n) == IF n >= 0 THEN n \div Den ELSE -((-n) \div Den)

Min(a, b) == IF a < b THEN a ELSE b
Max(a, b) == IF a > b THEN a ELSE b

(***************************************************************************)
(* numpy arrays.                                                           *)
(***************************************************************************)
None == [mem |-> 0, r0 |-> 0, c0 |-> 0, shape |-> <<>>]
NoBlock == [shape |-> <<>>, dtype |-> "", px |-> <<>>]

Rows(shape) == shape[1]
Cols(shape) == IF Len(shape) >= 2 THEN shape[2] ELSE 1
Cells(shape) == (0..(Rows(shape) - 1)) \X (0..(Cols(shape) - 1))

(* The pixel value written by a library primitive or a numpy computation:  *)
(* the contents of computed arrays are not modelled.                       *)
LibPixel == 0
(* The value a client writes through img.data[r, c] = v. *)
WritePixel == 9

PositionPx(shape) == [p \in Cells(shape) |-> p[1] * Cols(shape) + p[2] + 1]
ComputedPx(shape) == [p \in Cells(shape) |-> LibPixel]

NewBlock(shape, dtype, px) == [shape |-> shape, dtype |-> dtype, px |-> px]

FreeId(m) == CHOOSE i \in MemIds : m[i] = NoBlock /\ \A j \in MemIds : m[j] = NoBlock => i <= j

(* A fresh array: the memory with the block stored, and the ndarray on it. *)
AllocMem(m, blk) == [m EXCEPT ![FreeId(m)] = blk]
AllocArr(m, blk) == [mem |-> FreeId(m), r0 |-> 0, c0 |-> 0, shape |-> blk.shape]

DType(a, m) == m[a.mem].dtype

(* The pixels an ndarray shows, read through its view. *)
Pixels(a, m) ==
    IF a = None THEN [shape |-> <<>>, dtype |-> "", px |-> <<>>]
    ELSE [shape |-> a.shape, dtype |-> m[a.mem].dtype,
          px |-> [p \in Cells(a.shape) |-> m[a.mem].px[<<a.r0 + p[1], a.c0 + p[2]>>]]]

(* Blocks no handle refers to are reclaimed, and the blocks in use are      *)
(* numbered in the order of the handles that hold them.                    *)
Refs(d, lv) == {d[x].mem : x \in lv} \ {0}
Owner(d, lv, i) == CHOOSE x \in lv : d[x].mem = i /\ \A y \in lv : d[y].mem = i => x <= y
Rank(d, lv, i) == Cardinality({j \in Refs(d, lv) : Owner(d, lv, j) < Owner(d, lv, i)}) + 1
CollectData(d, lv) ==
    [x \in Handles |-> IF x \in lv /\ d[x].mem # 0
                       THEN [d[x] EXCEPT !.mem = Rank(d, lv, d[x].mem)] ELSE None]
CollectMem(m, d, lv) ==
    [k \in MemIds |-> IF \E i \in Refs(d, lv) : Rank(d, lv, i) = k
                      THEN m[CHOOSE i \in Refs(d, lv) : Rank(d, lv, i) = k] ELSE NoBlock]

(***************************************************************************)
(* ImageStructure: shape, width, height, dim are properties of data.       *)
(***************************************************************************)
shape(h) == data[h].shape
height(h) == shape(h)[1]
width(h) == shape(h)[2]
dim(h) == Len(shape(h))

(***************************************************************************)
(* The record of a call: the method, its arguments, the exception it       *)
(* raised ("none" when it returned), the library primitives it invoked,    *)
(* what it returned, and which handles still hold the very buffer, with    *)
(* the very pixels, they held before the call; shape is self.shape as the  *)
(* call began.                                                             *)
(***************************************************************************)
NoArgs == [none |-> TRUE]

Idle == [op |-> "idle", h |-> 0, args |-> NoArgs, exc |-> "none", lib |-> <<>>,
         ret |-> <<>>, kept |-> Handles, fsKept |-> TRUE, shape |-> <<>>]

Kept(d, m, lv) ==
    {x \in Handles : /\ (x \in lv) = (x \in live)
                     /\ d[x] = data[x]
                     /\ \/ d[x] = None
                        \/ m[d[x].mem] = mem[d[x].mem]
                        \/ Pixels(d[x], m) = Pixels(data[x], mem)}

(* The end of a call that leaves handles lv holding arrays d in memory m   *)
(* and the file system f.                                                  *)
Finish(op, h, args, exc, lib, ret, lv, d, m, f) ==
    /\ last = Idle
    /\ calls < MaxCalls
    /\ calls' = calls + 1
    /\ last' = [op |-> op, h |-> h, args |-> args, exc |-> exc, lib |-> lib,
                ret |-> ret, kept |-> Kept(d, m, lv), fsKept |-> (f = fs),
                shape |-> data[h].shape]
    /\ live' = lv
    /\ data' = CollectData(d, lv)
    /\ mem' = CollectMem(m, d, lv)
    /\ fs' = f

(* The call raised before it assigned anything. *)
Raise(op, h, args, exc, lib) ==
    /\ last = Idle
    /\ calls < MaxCalls
    /\ calls' = calls + 1
    /\ last' = [op |-> op, h |-> h, args |-> args, exc |-> exc, lib |-> lib,
                ret |-> <<>>, kept |-> Handles, fsKept |-> TRUE, shape |-> data[h].shape]
    /\ UNCHANGED <<live, data, mem, fs>>

(* The call returned after self.data = <a fresh array blk>. *)
Assign(op, h, args, lib, blk) ==
    Finish(op, h, args, "none", lib, <<>>, live,
           [data EXCEPT ![h] = AllocArr(mem, blk)], AllocMem(mem, blk), fs)

(* The call returned Image(arr) for an existing ndarray arr; the caller    *)
(* binds it to dst.                                                        *)
ReturnImage(op, h, args, lib, arr, dst) ==
    Finish(op, h, args, "none", lib, <<Pixels(arr, mem)>>, live \cup {dst},
           [data EXCEPT ![dst] = arr], mem, fs)

(* The caller has seen the outcome of the call and goes on. *)
Continue ==
    /\ last # Idle
    /\ last' = Idle
    /\ UNCHANGED <<live, data, mem, fs, calls>>

(***************************************************************************)
(* Construction.                                                           *)
(***************************************************************************)
(* Arrays that are images: height x width, or height x width x channels. *)
ImageShapes ==
    {<<r, c>> : r \in Dims, c \in Dims}
        \cup {<<r, c, 3>> : r \in Dims, c \in {1, MaxDim}} \cup {<<1, 1, 4>>}

(* Image(input) for input an ndarray: __convert_array returns it as is. *)
ImageStructure__init__(h, shp, dtype) ==
    LET blk == NewBlock(shp, dtype, PositionPx(shp))
    IN Finish("__init__", h, [shape |-> shp, dtype |-> dtype], "none", <<>>, <<>>,
              live \cup {h}, [data EXCEPT ![h] = AllocArr(mem, blk)],
              AllocMem(mem, blk), fs)

(* other = Image(array) for an image array, a 1-D array, a 4-D array. *)
Construct(h) ==
    \E shp \in {<<1, MaxDim>>, <<MaxDim, 1, 3>>, <<MaxDim>>, <<1, 1, 3, 1>>} :
        ImageStructure__init__(h, shp, "uint8")

(* Image.deepcopy: Image(self.data). *)
deepcopy(h, dst) ==
    /\ h \in live /\ dst # h
    /\ ReturnImage("deepcopy", h, NoArgs, <<>>, data[h], dst)

(* A client writes a pixel through the data attribute: img.data[0, 0] = v *)
PixelWrite(h) ==
    /\ h \in live /\ data[h] # None
    /\ Finish("setitem", h, NoArgs, "none", <<>>, <<>>, live, data,
              [mem EXCEPT ![data[h].mem].px[<<data[h].r0, data[h].c0>>] = WritePixel], fs)

(***************************************************************************)
(* Helpers on the array an image holds.                                    *)
(***************************************************************************)
Computed(shp, dtype) == NewBlock(shp, dtype, ComputedPx(shp))

(* The shape with its two leading dimensions replaced. *)
Reshaped(shp, r, c) == IF Len(shp) = 2 THEN <<r, c>> ELSE <<r, c, shp[3]>>

(* a[r1:r2, c1:c2] for non-negative bounds: a view on the same memory. *)
Slice(a, r1, r2, c1, c2) ==
    LET H == a.shape[1]
        W == a.shape[2]
        ra == Min(r1, H)
        rb == Max(ra, Min(r2, H))
        ca == Min(c1, W)
        cb == Max(ca, Min(c2, W))
    IN [mem |-> a.mem, r0 |-> a.r0 + ra, c0 |-> a.c0 + ca,
        shape |-> Reshaped(a.shape, rb - ra, cb - ca)]

(* self.data = arr for an existing ndarray arr (a view). *)
AssignView(op, h, args, lib, arr) ==
    Finish(op, h, args, "none", lib, <<>>, live, [data EXCEPT ![h] = arr], mem, fs)

(***************************************************************************)
(* Image.crop and Image.crop2                                              *)
(***************************************************************************)
(* crop's checks without the one on br. *)
CropCheckNoBound(h, tl, br) ==
    IF tl[1] < 0 \/ tl[2] < 0 THEN "ValueError"
    ELSE IF tl[1] >= br[1] \/ tl[2] >= br[2] THEN "ValueError"
    ELSE "none"

CropCheck(h, tl, br) ==
    IF tl[1] < 0 \/ tl[2] < 0 THEN "ValueError"
    ELSE IF br[1] > height(h) \/ br[2] > width(h) THEN "ValueError"
    ELSE IF tl[1] >= br[1] \/ tl[2] >= br[2] THEN "ValueError"
    ELSE "none"

Cropped(h, tl, br) == Slice(data[h], tl[1], br[1] + 1, tl[2], br[2] + 1)

crop(h, tl, br, inplace, dst) ==
    /\ h \in live /\ dst # h
    /\ LET args == [tl |-> tl, br |-> br, inplace |-> inplace]
       IN IF CropCheck(h, tl, br) # "none"
          THEN Raise("crop", h, args, CropCheck(h, tl, br), <<>>)
          ELSE IF inplace
               THEN AssignView("crop", h, args, <<>>, Cropped(h, tl, br))
               ELSE ReturnImage("crop", h, args, <<>>, Cropped(h, tl, br), dst)

crop2(h, tl, cheight, cwidth, inplace, dst) ==
    /\ h \in live /\ dst # h
    /\ LET args == [tl |-> tl, height |-> cheight, width |-> cwidth, inplace |-> inplace]
           cropped == Slice(data[h], tl[1], tl[1] + cheight, tl[2], tl[2] + cwidth)
       IN IF tl[1] < 0 \/ tl[2] < 0
          THEN Raise("crop2", h, args, "ValueError", <<>>)
          ELSE IF inplace
               THEN AssignView("crop2", h, args, <<>>, cropped)
               ELSE ReturnImage("crop2", h, args, <<>>, cropped, dst)

(***************************************************************************)
(* Image.channels, Image.blend                                             *)
(***************************************************************************)
NChannels(shp) == IF Len(shp) = 2 THEN 1 ELSE shp[3]

(* One plane of cv.split(self.data): a new array. *)
Plane(h) ==
    NewBlock(<<height(h), width(h)>>, DType(data[h], mem), Pixels(data[h], mem).px)

(* channels() returns a list of images; the caller keeps element k. *)
channels(h, k, dst) ==
    /\ h \in live /\ dst # h
    /\ k < NChannels(shape(h))
    /\ Finish("channels", h, [k |-> k], "none", <<"split">>,
              [c \in 1..NChannels(shape(h)) |-> Plane(h)],
              live \cup {dst}, [data EXCEPT ![dst] = AllocArr(mem, Plane(h))],
              AllocMem(mem, Plane(h)), fs)

(* The other argument of blend that is not an Image. *)
NotAnImage == 0

(* to_BGR on a copy: the shape once the image has three channels. *)
BGRShape(shp) == IF Len(shp) = 2 THEN <<shp[1], shp[2], 3>> ELSE shp

ToBGRCalls(shp) == IF Len(shp) = 2 THEN <<"cvtColor">> ELSE <<>>

blend(h, other, alpha) ==
    /\ h \in live
    /\ other \in live \cup {NotAnImage}
    /\ LET args == [other |-> other, alpha |-> alpha]
       IN IF other = NotAnImage
          THEN Raise("blend", h, args, "TypeError", <<>>)
          ELSE IF alpha < 0 \/ alpha > Den
          THEN Raise("blend", h, args, "ValueError", <<>>)
          ELSE IF data[other] = None
          THEN Raise("blend", h, args, "AttributeError", ToBGRCalls(shape(h)))
          ELSE LET s1 == BGRShape(shape(h))
                   s2 == BGRShape(shape(other))
                   lib == ToBGRCalls(shape(h)) \o ToBGRCalls(shape(other)) \o <<"addWeighted">>
               IN IF s1 # s2 \/ DType(data[h], mem) # DType(data[other], mem)
                  THEN Raise("blend", h, args, "cv.error", lib)
                  ELSE Assign("blend", h, args, lib, Computed(s1, DType(data[h], mem)))

(***************************************************************************)
(* GeneralMixin                                                            *)
(***************************************************************************)
channel(h, c) ==
    /\ h \in live
    /\ IF dim(h) # 2
       THEN IF c >= NChannels(shape(h))
            THEN Raise("channel", h, [c |-> c], "IndexError", <<"split">>)
            ELSE Assign("channel", h, [c |-> c], <<"split">>, Plane(h))
       ELSE Finish("channel", h, [c |-> c], "none", <<>>, <<>>, live, data, mem, fs)

Directions == {"h", "horizontal", "v", "vertical"}

(* The corners split hands to crop: <<tl1, br1, tl2, br2>>. *)
SplitCorners(h, direction, mid, position) ==
    LET pos == IF direction \in {"h", "horizontal"}
               THEN (IF mid THEN height(h) \div 2 ELSE position)
               ELSE (IF mid THEN width(h) \div 2 ELSE position)
    IN IF direction \in {"h", "horizontal"}
       THEN << <<0, 0>>, <<pos, width(h)>>, <<pos, 0>>, <<height(h), width(h)>> >>
       ELSE << <<0, 0>>, <<height(h), pos>>, <<0, pos>>, <<height(h), width(h)>> >>

(* split returns two images; the caller binds the one picked to dst. *)
split(h, direction, mid, position, pick, dst) ==
    /\ h \in live /\ dst # h
    /\ LET args == [direction |-> direction, mid |-> mid, position |-> position]
           k == SplitCorners(h, direction, mid, position)
       IN IF direction \notin Directions
          THEN Raise("split", h, args, "ValueError", <<>>)
          ELSE IF CropCheck(h, k[1], k[2]) # "none"
          THEN Raise("split", h, args, CropCheck(h, k[1], k[2]), <<>>)
          ELSE IF CropCheck(h, k[3], k[4]) # "none"
          THEN Raise("split", h, args, CropCheck(h, k[3], k[4]), <<>>)
          ELSE LET first == Cropped(h, k[1], k[2])
                   secon == Cropped(h, k[3], k[4])
               IN Finish("split", h, args, "none", <<>>,
                         <<Pixels(first, mem), Pixels(secon, mem)>>, live \cup {dst},
                         [data EXCEPT ![dst] = IF pick = 1 THEN first ELSE secon],
                         mem, fs)

FloatTypes == {"float32", "float64"}

(* ~self.data: numpy's invert is not defined on floating point arrays. *)
negate(h) ==
    /\ h \in live
    /\ IF dim(h) # 2 THEN Raise("negate", h, NoArgs, "ValueError", <<>>)
       ELSE IF DType(data[h], mem) \in FloatTypes
       THEN Raise("negate", h, NoArgs, "TypeError", <<>>)
       ELSE Assign("negate", h, NoArgs, <<>>, Computed(shape(h), DType(data[h], mem)))

BlurMethods == {"gauss", "average", "median", "bilateral"}

(* blur's checks without the one on parity. *)
BlurCheckAnyParity(size, method) ==
    IF method \notin BlurMethods THEN "ValueError"
    ELSE IF size < 3 THEN "ValueError"
    ELSE "none"

BlurCheck(size, method) ==
    IF method \notin BlurMethods THEN "ValueError"
    ELSE IF size < 3 THEN "ValueError"
    ELSE IF size % 2 = 0 THEN "ValueError"
    ELSE "none"

BlurCall(method) ==
    IF method = "gauss" THEN "GaussianBlur"
    ELSE IF method = "average" THEN "blur"
    ELSE IF method = "median" THEN "medianBlur"
    ELSE "bilateralFilter"

blur(h, size, method) ==
    /\ h \in live
    /\ LET args == [size |-> size, method |-> method]
       IN IF BlurCheck(size, method) # "none"
          THEN Raise("blur", h, args, BlurCheck(size, method), <<>>)
          ELSE Assign("blur", h, args, <<BlurCall(method)>>,
                      Computed(shape(h), DType(data[h], mem)))

(* cv.GaussianBlur accepts only odd positive kernel sizes. *)
gaussian_blur(h, size) ==
    /\ h \in live
    /\ IF size % 2 = 0
       THEN Raise("gaussian_blur", h, [size |-> size], "cv.error", <<"GaussianBlur">>)
       ELSE Assign("gaussian_blur", h, [size |-> size], <<"GaussianBlur">>,
                   Computed(shape(h), DType(data[h], mem)))

ResizeParams == {"width", "height", "ratio"}

(* resize's checks with zero let through. *)
ResizeCheckNegative(param, value) ==
    IF param \notin ResizeParams THEN "ValueError"
    ELSE IF value < 0 THEN "ValueError"
    ELSE "none"

ResizeCheck(param, value) ==
    IF param \notin ResizeParams THEN "ValueError"
    ELSE IF value <= 0 THEN "ValueError"
    ELSE "none"

(* The (width, height) handed to cv.resize; value is a numerator over Den. *)
ResizeDim(shp, param, value) ==
    LET h0 == shp[1]
        w0 == shp[2]
    IN IF param = "height" THEN <<(w0 * IntOf(value)) \div h0, IntOf(value)>>
       ELSE IF param = "width" THEN <<IntOf(value), (h0 * IntOf(value)) \div w0>>
       ELSE <<IntOf(w0 * value), IntOf(h0 * value)>>

(* cv.resize rejects an empty target size. *)
LibResizeOk(dsize) == dsize[1] >= 1 /\ dsize[2] >= 1

resize(h, param, value) ==
    /\ h \in live
    /\ LET args == [param |-> param, value |-> value]
           dsize == ResizeDim(shape(h), param, value)
       IN IF ResizeCheck(param, value) # "none"
          THEN Raise("resize", h, args, ResizeCheck(param, value), <<>>)
          ELSE /\ dsize[1] <= MaxDim /\ dsize[2] <= MaxDim
               /\ IF ~LibResizeOk(dsize)
                  THEN Raise("resize", h, [args EXCEPT !.value = value], "cv.error", <<"resize">>)
                  ELSE Assign("resize", h, args, <<"resize">>,
                              Computed(Reshaped(shape(h), dsize[2], dsize[1]),
                                       DType(data[h], mem)))

full_resize(h, dsize) ==
    /\ h \in live
    /\ IF ~LibResizeOk(dsize)
       THEN Raise("full_resize", h, [dim |-> dsize], "cv.error", <<"resize">>)
       ELSE Assign("full_resize", h, [dim |-> dsize], <<"resize">>,
                   Computed(Reshaped(shape(h), dsize[2], dsize[1]), DType(data[h], mem)))

rotate90(h) ==
    /\ h \in live
    /\ Assign("rotate90", h, NoArgs, <<"rotate">>,
              Computed(Reshaped(shape(h), width(h), height(h)), DType(data[h], mem)))

rotate(h) ==
    /\ h \in live
    /\ Assign("rotate", h, NoArgs, <<"getRotationMatrix2D", "warpAffine">>,
              Computed(shape(h), DType(data[h], mem)))

(* np.where(rate * total <= hist)[0][0] finds nothing when rate > 1: the   *)
(* IndexError comes after self.data has been replaced by the equalized     *)
(* image.  rate is a numerator over Den.                                   *)
equalize_hist(h, rate) ==
    /\ h \in live
    /\ rate <= 0 \/ rate > Den
    /\ IF dim(h) # 2 THEN Raise("equalize_hist", h, [rate |-> rate], "ValueError", <<>>)
       ELSE LET blk == Computed(shape(h), "uint8")
            IN Finish("equalize_hist", h, [rate |-> rate],
                      IF rate > Den THEN "IndexError" ELSE "none", <<"equalizeHist">>,
                      <<>>, live, [data EXCEPT ![h] = AllocArr(mem, blk)],
                      AllocMem(mem, blk), fs)

distance_transform(h) ==
    /\ h \in live
    /\ IF dim(h) # 2 THEN Raise("distance_transform", h, NoArgs, "ValueError", <<>>)
       ELSE Assign("distance_transform", h, NoArgs, <<"distanceTransform", "normalize">>,
                   Computed(shape(h), "uint8"))

(***************************************************************************)
(* ThresholdMixin                                                          *)
(***************************************************************************)
(* cv.adaptiveThreshold wants an odd block size above 1 and 8-bit pixels. *)
LibAdaptiveOk(blocksize, dtype) == blocksize % 2 = 1 /\ blocksize > 1 /\ dtype = "uint8"

adaptive_threshold(h, blursize, blocksize) ==
    /\ h \in live
    /\ LET args == [blursize |-> blursize, blocksize |-> blocksize]
           dtype == DType(data[h], mem)
           blurred == Computed(shape(h), dtype)
           lib == (IF blursize > 0 THEN <<"GaussianBlur">> ELSE <<>>) \o <<"adaptiveThreshold">>
       IN IF dim(h) # 2 THEN Raise("adaptive_threshold", h, args, "ValueError", <<>>)
          ELSE IF blursize > 0 /\ BlurCheck(blursize, "gauss") # "none"
          THEN Raise("adaptive_threshold", h, args, BlurCheck(blursize, "gauss"), <<>>)
          ELSE IF LibAdaptiveOk(blocksize, dtype)
          THEN Assign("adaptive_threshold", h, args, lib, Computed(shape(h), "uint8"))
          ELSE IF blursize > 0
          THEN Finish("adaptive_threshold", h, args, "cv.error", lib, <<>>, live,
                      [data EXCEPT ![h] = AllocArr(mem, blurred)], AllocMem(mem, blurred), fs)
          ELSE Raise("adaptive_threshold", h, args, "cv.error", lib)

(* binarize without its check on dim. *)
binarizeAnyDim(h, threshold) ==
    /\ h \in live
    /\ Assign("binarize", h, [threshold |-> threshold], <<"threshold">>,
              Computed(shape(h), DType(data[h], mem)))

binarize(h, threshold) ==
    /\ h \in live
    /\ IF dim(h) # 2 THEN Raise("binarize", h, [threshold |-> threshold], "ValueError", <<>>)
       ELSE Assign("binarize", h, [threshold |-> threshold], <<"threshold">>,
                   Computed(shape(h), DType(data[h], mem)))

(***************************************************************************)
(* MorphologicalMixin                                                      *)
(***************************************************************************)
(* if self.dim != 2: raise ValueError, then one library transform. *)
Only2D(op, h, lib) ==
    /\ h \in live
    /\ IF dim(h) # 2 THEN Raise(op, h, NoArgs, "ValueError", <<>>)
       ELSE Assign(op, h, NoArgs, lib, Computed(shape(h), DType(data[h], mem)))

sharpen(h) == Only2D("sharpen", h, <<"filter2D">>)
open(h) == Only2D("open", h, <<"getStructuringElement", "morphologyEx">>)
close(h) == Only2D("close", h, <<"getStructuringElement", "morphologyEx">>)
dilate(h) == Only2D("dilate", h, <<"getStructuringElement", "morphologyEx">>)
erode(h) == Only2D("erode", h, <<"getStructuringElement", "morphologyEx">>)
tophat(h) == Only2D("tophat", h, <<"getStructuringElement", "morphologyEx">>)
blackhat(h) == Only2D("blackhat", h, <<"getStructuringElement", "morphologyEx">>)

(* line_strel: an even size is rejected; otherwise line.height, which an   *)
(* ndarray does not have, raises AttributeError.                           *)
line_strel(size) == IF size % 2 # 1 THEN "ValueError" ELSE "AttributeError"

(* range(0, 180, step) is empty for a negative step and raises for 0. *)
Algebric(op, h, size, step) ==
    /\ h \in live
    /\ LET args == [size |-> size, step |-> step]
       IN IF dim(h) # 2 THEN Raise(op, h, args, "ValueError", <<>>)
          ELSE IF step = 0 THEN Raise(op, h, args, "ValueError", <<>>)
          ELSE IF step > 0 THEN Raise(op, h, args, line_strel(size), <<>>)
          ELSE Assign(op, h, args, <<>>, Computed(shape(h), "uint8"))

algebric_open(h, size, step) == Algebric("algebric_open", h, size, step)
algebric_dilate(h, size, step) == Algebric("algebric_dilate", h, size, step)

gabor(h) ==
    /\ h \in live
    /\ Assign("gabor", h, NoArgs, <<"getGaborKernel", "filter2D">>,
              Computed(shape(h), DType(data[h], mem)))

edges(h) ==
    /\ h \in live
    /\ Assign("edges", h, NoArgs, <<"Canny">>, Computed(<<height(h), width(h)>>, "uint8"))

sobel(h) ==
    /\ h \in live
    /\ Assign("sobel", h, NoArgs, <<"Sobel">>, Computed(shape(h), "uint8"))

(***************************************************************************)
(* CircleMixin                                                             *)
(***************************************************************************)
(* get_circle works on a copy resized by 1.0 / div; div is a numerator     *)
(* over Den and is 1.0, 0.0 or -1.0.  HoughCircles returns None when it    *)
(* finds no circle, and c[0] then raises TypeError.                        *)
get_circle(h, div, found) ==
    /\ h \in live
    /\ div \in {Den, 0, -Den}
    /\ LET args == [div |-> div]
           dsize == ResizeDim(shape(h), "ratio", Den)
       IN IF dim(h) # 2 THEN Raise("get_circle", h, args, "ValueError", <<>>)
          ELSE IF div = 0 THEN Raise("get_circle", h, args, "ZeroDivisionError", <<>>)
          ELSE IF ResizeCheck("ratio", div) # "none"
          THEN Raise("get_circle", h, args, ResizeCheck("ratio", div), <<>>)
          ELSE IF ~LibResizeOk(dsize)
          THEN Raise("get_circle", h, args, "cv.error", <<"resize">>)
          ELSE Finish("get_circle", h, args, IF found THEN "none" ELSE "TypeError",
                      <<"resize", "HoughCircles">>, <<>>, live, data, mem, fs)

(* int(c + s * sqrt(num / den)) for s = 1 or -1, truncating towards zero. *)
FloorSqrt(num, den) ==
    CHOOSE n \in 0..num : n * n * den <= num /\ (n + 1) * (n + 1) * den > num
CeilSqrt(num, den) ==
    IF FloorSqrt(num, den) * FloorSqrt(num, den) * den = num
    THEN FloorSqrt(num, den) ELSE FloorSqrt(num, den) + 1
TruncAdd(c, s, num, den) ==
    IF s >= 0
    THEN (IF c < 0 /\ num < c * c * den THEN c + CeilSqrt(num, den)
          ELSE c + FloorSqrt(num, den))
    ELSE (IF c >= 0 /\ num <= c * c * den THEN c - CeilSqrt(num, den)
          ELSE c - FloorSqrt(num, den))

Sgn(x) == IF x > 0 THEN 1 ELSE IF x < 0 THEN -1 ELSE 0

(* L1 = radius / sqrt(ratio^2 + 1), L2 = L1 * ratio; the corners are       *)
(* tl = (int(cy - L1), int(cx - L2)) and br = (int(cy + L1), int(cx + L2)) *)
(* for center = [cx, cy].                                                  *)
CircleCorners(center, radius, ratio) ==
    LET k == ratio * ratio + 1
        n1 == radius * radius
        n2 == radius * radius * ratio * ratio
        s1 == Sgn(radius)
        s2 == Sgn(radius) * Sgn(ratio)
    IN << <<TruncAdd(center[2], -s1, n1, k), TruncAdd(center[1], -s2, n2, k)>>,
          <<TruncAdd(center[2], s1, n1, k), TruncAdd(center[1], s2, n2, k)>> >>

(* The checks of crop_at_circle on its arguments. *)
CircleCheck(center, radius, ratio) ==
    IF Len(center) # 2 THEN "ValueError"
    ELSE IF radius > 0 THEN "ValueError"
    ELSE IF ratio > 0 THEN "ValueError"
    ELSE "none"

(* square: the caller passed ratio = "square". *)
crop_at_circle(h, center, radius, ratio, square) ==
    /\ h \in live
    /\ LET args == [center |-> center, radius |-> radius, ratio |-> ratio, square |-> square]
           rat == IF square THEN 1 ELSE ratio
           k == CircleCorners(center, radius, rat)
       IN IF CircleCheck(center, radius, rat) # "none"
          THEN Raise("crop_at_circle", h, args, CircleCheck(center, radius, rat), <<>>)
          ELSE IF CropCheck(h, k[1], k[2]) # "none"
          THEN Raise("crop_at_circle", h, args, CropCheck(h, k[1], k[2]), <<>>)
          ELSE AssignView("crop_at_circle", h, args, <<>>, Cropped(h, k[1], k[2]))

RECURSIVE SeqMax(_)
SeqMax(q) == IF Len(q) = 1 THEN q[1] ELSE Max(q[1], SeqMax(Tail(q)))
RECURSIVE SeqMin(_)
SeqMin(q) == IF Len(q) = 1 THEN q[1] ELSE Min(q[1], SeqMin(Tail(q)))
RECURSIVE SeqSum(_)
SeqSum(q) == IF q = <<>> THEN 0 ELSE q[1] + SeqSum(Tail(q))

(* len(np.arange(stop=2 * pi, step=asin(1 / (sum(radii) / 2)))) *)
AngleCount(total) == IF total = 2 THEN 4 ELSE IF total = 3 THEN 9 ELSE 12

RingCheck(h, center, radii) ==
    IF Len(center) # 2 THEN "ValueError"
    ELSE IF Len(center) # 2 THEN "ValueError"
    ELSE IF SeqMax(radii) >= Min(height(h), width(h)) \div 2 THEN "ValueError"
    ELSE IF SeqMin(radii) <= 0 THEN "ValueError"
    ELSE "none"

(* A 2D image fails at transpose(1, 0, 2), after the checks. *)
(* The indices center - cos * r and center - sin * r all address a pixel. *)
RingInside(h, center, radii) ==
    /\ center[1] - SeqMax(radii) >= 0 /\ center[1] + SeqMax(radii) < height(h)
    /\ center[2] - SeqMax(radii) >= 0 /\ center[2] + SeqMax(radii) < width(h)

ring(h, center, radii) ==
    /\ h \in live
    /\ SeqSum(radii) \in {2, 3, 4}
    /\ RingCheck(h, center, radii) # "none" \/ dim(h) = 2 \/ RingInside(h, center, radii)
    /\ LET args == [center |-> center, radii |-> radii]
       IN IF RingCheck(h, center, radii) # "none"
          THEN Raise("ring", h, args, RingCheck(h, center, radii), <<>>)
          ELSE IF dim(h) = 2 THEN Raise("ring", h, args, "ValueError", <<>>)
          ELSE Assign("ring", h, args, <<>>,
                      Computed(<<SeqMax(radii) - SeqMin(radii), AngleCount(SeqSum(radii)),
                                 shape(h)[3]>>, DType(data[h], mem)))

(* cv.connectedComponentsWithStats wants one 8-bit channel. *)
LibComponentsOk(h) == dim(h) = 2 /\ DType(data[h], mem) = "uint8"

(* self.data = concat[:, a:b]: a view on the stacked copy, n images wide. *)
Filtered(op, h, n, a) ==
    /\ h \in live
    /\ IF ~LibComponentsOk(h)
       THEN Raise(op, h, NoArgs, "cv.error", <<"connectedComponentsWithStats">>)
       ELSE LET blk == Computed(<<height(h), n * width(h)>>, "uint8")
            IN Finish(op, h, NoArgs, "none", <<"connectedComponentsWithStats">>, <<>>, live,
                      [data EXCEPT ![h] = [AllocArr(mem, blk) EXCEPT
                                              !.c0 = a, !.shape = <<height(h), width(h)>>]],
                      AllocMem(mem, blk), fs)

filter_objects(h) == Filtered("filter_objects", h, 2, (2 * width(h)) \div 4)
filter_border2border(h) == Filtered("filter_border2border", h, 3, (3 * width(h)) \div 3)

get_corners(h) ==
    /\ h \in live
    /\ Finish("get_corners", h, NoArgs, "none", <<>>, <<>>, live, data, mem, fs)

(* cv.getPerspectiveTransform takes four points, as 4x2 or 4x1x2. *)
LibPointsOk(shp) == shp \in {<<4, 2>>, <<4, 1, 2>>}

(* self.channel(idx) replaces data by one channel and returns None, so     *)
(* .data on its result raises AttributeError.                              *)
warp(h, src, dst) ==
    /\ h \in live
    /\ LET args == [src |-> src, dst |-> dst]
       IN IF src = <<4, 2>> THEN Raise("warp", h, args, "ValueError", <<>>)
          ELSE IF dst = <<4, 2>> THEN Raise("warp", h, args, "ValueError", <<>>)
          ELSE IF ~(LibPointsOk(src) /\ LibPointsOk(dst))
          THEN Raise("warp", h, args, "cv.error", <<"getPerspectiveTransform">>)
          ELSE IF dim(h) # 2
          THEN Finish("warp", h, args, "AttributeError", <<"getPerspectiveTransform", "split">>,
                      <<>>, live, [data EXCEPT ![h] = AllocArr(mem, Plane(h))],
                      AllocMem(mem, Plane(h)), fs)
          ELSE Raise("warp", h, args, "AttributeError", <<"getPerspectiveTransform">>)

(***************************************************************************)
(* ColorMixin                                                              *)
(***************************************************************************)
ColorCheck(h) ==
    IF dim(h) # 3 THEN "ValueError"
    ELSE IF shape(h)[3] # 3 THEN "ValueError"
    ELSE "none"

colorspace(op, h, shp) ==
    /\ h \in live
    /\ IF ColorCheck(h) # "none" THEN Raise(op, h, NoArgs, ColorCheck(h), <<>>)
       ELSE Assign(op, h, NoArgs, <<"cvtColor">>, Computed(shp, DType(data[h], mem)))

BGR_to_LAB(h) == colorspace("BGR_to_LAB", h, shape(h))
LAB_to_BGR(h) == colorspace("LAB_to_BGR", h, shape(h))
BGR_to_HSV(h) == colorspace("BGR_to_HSV", h, shape(h))
HSV_to_BGR(h) == colorspace("HSV_to_BGR", h, shape(h))
BGR_to_GRAY(h) == colorspace("BGR_to_GRAY", h, <<height(h), width(h)>>)

to_BGR(h) ==
    /\ h \in live
    /\ IF dim(h) = 2
       THEN Assign("to_BGR", h, NoArgs, <<"cvtColor">>,
                   Computed(BGRShape(shape(h)), DType(data[h], mem)))
       ELSE Finish("to_BGR", h, NoArgs, "none", <<>>, <<>>, live, data, mem, fs)

to_GRAY(h) ==
    /\ h \in live
    /\ IF dim(h) = 3
       THEN colorspace("to_GRAY", h, <<height(h), width(h)>>)
       ELSE Finish("to_GRAY", h, NoArgs, "none", <<>>, <<>>, live, data, mem, fs)

(* isinstance(self.data[0, 0], np.uint8): an element of a 2D uint8 array;  *)
(* data[0, 0] of a 3D array is an array.                                   *)
IsUint8Scalar(h) == dim(h) = 2 /\ DType(data[h], mem) = "uint8"

Convert(op, h, dtype) ==
    /\ h \in live
    /\ IF IsUint8Scalar(h)
       THEN Finish(op, h, NoArgs, "none", <<>>, <<>>, live, data, mem, fs)
       ELSE Assign(op, h, NoArgs, <<>>, Computed(shape(h), dtype))

to_8UC1(h) == Convert("to_8UC1", h, "uint8")
to_16UC1(h) == Convert("to_16UC1", h, "uint16")

(* cv.kmeans wants 1 <= K <= number of samples. *)
LibKmeansOk(K, n) == K >= 1 /\ K <= n

kmeans(h, K, equalize) ==
    /\ h \in live
    /\ LET args == [K |-> K, equalize |-> equalize]
           shp == BGRShape(shape(h))
           bgr == Computed(shp, DType(data[h], mem))
           lib == ToBGRCalls(shape(h)) \o <<"kmeans">>
       IN IF shp[3] # 3 /\ (shp[1] * shp[2] * shp[3]) % 3 # 0
          THEN Raise("kmeans", h, args, "ValueError", <<>>)
          ELSE IF LibKmeansOk(K, (shp[1] * shp[2] * shp[3]) \div 3)
          THEN Assign("kmeans", h, args, lib,
                      Computed(IF equalize THEN <<shp[1], shp[2]>> ELSE shp, "uint8"))
          ELSE IF dim(h) = 2
          THEN Finish("kmeans", h, args, "cv.error", lib, <<>>, live,
                      [data EXCEPT ![h] = AllocArr(mem, bgr)], AllocMem(mem, bgr), fs)
          ELSE Raise("kmeans", h, args, "cv.error", lib)

(***************************************************************************)
(* ToClassifyMixin                                                         *)
(***************************************************************************)
integral(h) ==
    /\ h \in live
    /\ height(h) < MaxDim /\ width(h) < MaxDim
    /\ IF dim(h) = 3 /\ ColorCheck(h) # "none"
       THEN Raise("integral", h, NoArgs, ColorCheck(h), <<>>)
       ELSE Assign("integral", h, NoArgs,
                   (IF dim(h) = 3 THEN <<"cvtColor">> ELSE <<>>) \o <<"integral">>,
                   Computed(<<height(h) + 1, width(h) + 1>>, "float64"))

(* self.data[:, new_indexes] for new_indexes = (arange(width) + offset) % width *)
vertical_shift(h, offset) ==
    /\ h \in live
    /\ LET old == Pixels(data[h], mem)
           px == [p \in Cells(shape(h)) |-> old.px[<<p[1], (p[2] + offset) % width(h)>>]]
       IN Assign("vertical_shift", h, [offset |-> offset], <<>>,
                 NewBlock(shape(h), old.dtype, px))

(* self.data[new_indexes, :] for new_indexes = (arange(height) + offset) % height *)
horizontal_shift(h, offset) ==
    /\ h \in live
    /\ LET old == Pixels(data[h], mem)
           px == [p \in Cells(shape(h)) |-> old.px[<<(p[1] + offset) % height(h), p[2]>>]]
       IN Assign("horizontal_shift", h, [offset |-> offset], <<>>,
                 NewBlock(shape(h), old.dtype, px))

(***************************************************************************)
(* Paths and the file system.  A path is a sequence of tokens: names, and  *)
(* the separators ".", "/" and "\".                                        *)
(***************************************************************************)
Index(q, sep) == CHOOSE i \in 1..Len(q) : q[i] = sep /\ \A j \in 1..(i - 1) : q[j] # sep

(* str.split(sep) *)
RECURSIVE StrSplit(_, _)
StrSplit(q, sep) ==
    IF \E i \in 1..Len(q) : q[i] = sep
    THEN <<SubSeq(q, 1, Index(q, sep) - 1)>> \o StrSplit(SubSeq(q, Index(q, sep) + 1, Len(q)), sep)
    ELSE <<q>>

(* str.replace(a, b) *)
StrReplace(q, a, b) == [i \in 1..Len(q) |-> IF q[i] = a THEN b ELSE q[i]]

(* sep.join(parts) *)
RECURSIVE StrJoin(_, _)
StrJoin(parts, sep) ==
    IF parts = <<>> THEN <<>>
    ELSE IF Len(parts) = 1 THEN parts[1]
    ELSE parts[1] \o <<sep>> \o StrJoin(Tail(parts), sep)

Extensions == {<<"jpg">>, <<"jpeg">>, <<"png">>}

Exists(f, path) == path \in f.dirs \/ \E x \in f.files : x.path = path

(* Path(folder).mkdir(parents=True): the folder and the folders above it. *)
Mkdir(f, folder) ==
    LET parts == StrSplit(folder, "/")
    IN [f EXCEPT !.dirs = @ \cup {StrJoin(SubSeq(parts, 1, n), "/") : n \in 1..Len(parts)}]

(* cv.imwrite picks the encoder from the text after the last "."; a path   *)
(* without one has no encoder.                                             *)
LibImwriteOk(path) == \E i \in 1..Len(path) : path[i] = "."

Imwrite(f, path, shp) ==
    [f EXCEPT !.files = {x \in @ : x.path # path} \cup {[path |-> path, shp |-> shp]}]

SaveCheck(path) ==
    IF StrSplit(path, ".")[Len(StrSplit(path, "."))] \notin Extensions
    THEN "ValueError" ELSE "none"

SaveFolder(path) ==
    LET substrings == StrSplit(StrReplace(path, "\\", "/"), "/")
    IN StrJoin(SubSeq(substrings, 1, Len(substrings) - 1), "/")

save(h, path) ==
    /\ h \in live
    /\ LET folder == SaveFolder(path)
           made == IF folder # <<>> /\ ~Exists(fs, folder) THEN Mkdir(fs, folder) ELSE fs
       IN IF SaveCheck(path) # "none"
          THEN Raise("save", h, [path |-> path], SaveCheck(path), <<>>)
          ELSE IF ~LibImwriteOk(path)
          THEN Finish("save", h, [path |-> path], "cv.error", <<"imwrite">>, <<>>, live, data,
                      mem, made)
          ELSE Finish("save", h, [path |-> path], "none", <<"imwrite">>, <<>>, live, data, mem,
                      Imwrite(made, path, <<height(h), width(h)>>))

(* show works on a copy: display.resize replaces the copy's array only.    *)
show(h, sheight, swidth) ==
    /\ h \in live
    /\ LET args == [height |-> sheight, width |-> swidth]
           param == IF sheight # 0 THEN "height" ELSE "width"
           value == IF sheight # 0 THEN sheight * Den ELSE swidth * Den
           resized == sheight # 0 \/ swidth # 0
       IN IF resized /\ ResizeCheck(param, value) # "none"
          THEN Raise("show", h, args, ResizeCheck(param, value), <<>>)
          ELSE IF resized /\ ~LibResizeOk(ResizeDim(shape(h), param, value))
          THEN Raise("show", h, args, "cv.error", <<"resize">>)
          ELSE Finish("show", h, args, "none",
                      (IF resized THEN <<"resize">> ELSE <<>>) \o <<"imshow", "waitKey">>,
                      <<>>, live, data, mem, fs)

(* np.ndarray | None returned by cv.imread(path, cv.IMREAD_COLOR). *)
FileShape(f, path) == (CHOOSE x \in f.files : x.path = path).shp

(* Image(path): __load_image. *)
Load(h, path) ==
    IF ~Exists(fs, path)
    THEN Raise("__init__", h, [path |-> path], "ValueError", <<>>)
    ELSE IF FileShape(fs, path) = <<>>
    THEN Finish("__init__", h, [path |-> path], "none", <<"imread">>, <<>>, live \cup {h},
                [data EXCEPT ![h] = None], mem, fs)
    ELSE LET sh == FileShape(fs, path)
             blk == Computed(<<sh[1], sh[2], 3>>, "uint8")
         IN Finish("__init__", h, [path |-> path], "none", <<"imread">>, <<>>, live \cup {h},
                   [data EXCEPT ![h] = AllocArr(mem, blk)], AllocMem(mem, blk), fs)

InPng == <<"in", ".", "png">>
NotesTxt == <<"notes", ".", "txt">>
MissingPng == <<"missing", ".", "png">>

(* An image file and a text file are on disk. *)
InitFs == [dirs |-> {}, files |-> {[path |-> InPng, shp |-> <<1, 1>>],
                                   [path |-> NotesTxt, shp |-> <<>>]}]

(* The arrays a run starts with: img = Image(array) for every image shape, *)
(* and other = Image(array2) for one small array.                          *)
(* A colour image wide enough to hold a ring of radius 2. *)
RingShape == <<3 * MaxDim, 3 * MaxDim, 3>>
InitArrays ==
    {<<shp, "uint8">> : shp \in ImageShapes \cup {RingShape}}
        \cup {<<shp, "float32">> : shp \in {<<1, MaxDim>>, <<MaxDim, MaxDim>>}}
OtherShape == <<1, 1>>

InitImage(id, shp) == [mem |-> id, r0 |-> 0, c0 |-> 0, shape |-> shp]

Init ==
    /\ live = {1, 2}
    /\ \E a \in InitArrays :
         /\ data = [h \in Handles |-> IF h = 1 THEN InitImage(1, a[1])
                                      ELSE InitImage(2, OtherShape)]
         /\ mem = [i \in MemIds |->
                      IF i = 1 THEN NewBlock(a[1], a[2], PositionPx(a[1]))
                      ELSE IF i = 2 THEN NewBlock(OtherShape, "uint8", PositionPx(OtherShape))
                      ELSE NoBlock]
    /\ fs = InitFs
    /\ last = Idle
    /\ calls = 0

TLs == {<<0, 0>>, <<0, 1>>, <<1, 0>>, <<-1, 0>>, <<0, -1>>}
BRs == {<<1, 1>>, <<MaxDim, MaxDim>>, <<MaxDim + 1, 1>>, <<1, MaxDim + 1>>}
Sizes == {1, 2, 3, 4}
ResizeValues == {-1, 0, 1, Den, 2 * Den}
CircleArgs ==
    {<<<<1, 1>>, radius, ratio, FALSE>> : radius \in {-1, 0, 1}, ratio \in {-1, 0, 1}}
        \cup {<<<<1, 1>>, radius, 0, TRUE>> : radius \in {-1, 1}}
        \cup {<<<<1>>, 1, 1, FALSE>>, <<<<1, 1, 1>>, -1, -1, FALSE>>}
SavePaths == {<<"a", ".", "jpg">>, <<"a", ".", "jpeg">>, <<"out", "/", "a", ".", "png">>,
              <<"out", "\\", "b", ".", "png">>, <<"out", "/", "a", ".", "gif">>,
              <<"a", ".", "png", "/", "b">>, <<"png">>}

Next ==
    \/ Continue
    \/ \E h \in Handles : PixelWrite(h)
    \/ Construct(2)
    \/ \E path \in {InPng, NotesTxt, MissingPng} : Load(2, path)
    \/ deepcopy(1, 2)
    \/ \E tl \in TLs, br \in BRs, inplace \in BOOLEAN : crop(1, tl, br, inplace, 2)
    \/ \E tl \in {<<0, 0>>, <<-1, 0>>}, inplace \in BOOLEAN : crop2(1, tl, 1, 1, inplace, 2)
    \/ channels(1, 0, 2)
    \/ \E other \in {2, NotAnImage}, alpha \in {-1, 1, Den + 1} : blend(1, other, alpha)
    \/ \E c \in {0, 5} : channel(1, c)
    \/ \E direction \in {"h", "v", "x"}, mid \in BOOLEAN, pick \in {1, 2} :
          split(1, direction, mid, 1, pick, 2)
    \/ negate(1)
    \/ \E size \in Sizes, method \in BlurMethods \cup {"box"} : blur(1, size, method)
    \/ \E size \in {3, 4} : gaussian_blur(1, size)
    \/ \E param \in ResizeParams \cup {"depth"}, value \in ResizeValues : resize(1, param, value)
    \/ \E dsize \in {<<1, 1>>, <<0, 1>>, <<MaxDim, 1>>} : full_resize(1, dsize)
    \/ rotate90(1)
    \/ rotate(1)
    \/ \E rate \in {0, 2 * Den} : equalize_hist(1, rate)
    \/ distance_transform(1)
    \/ \E blursize \in {0, 4, 5}, blocksize \in {20, 21} : adaptive_threshold(1, blursize, blocksize)
    \/ \E threshold \in {-1, 100} : binarize(1, threshold)
    \/ sharpen(1)
    \/ open(1)
    \/ close(1)
    \/ dilate(1)
    \/ erode(1)
    \/ tophat(1)
    \/ blackhat(1)
    \/ \E size \in {4, 5}, step \in {-5, 0, 5} : algebric_open(1, size, step)
    \/ \E size \in {4, 5}, step \in {-5, 0, 5} : algebric_dilate(1, size, step)
    \/ gabor(1)
    \/ edges(1)
    \/ sobel(1)
    \/ \E div \in {Den, 0, -Den}, found \in BOOLEAN : get_circle(1, div, found)
    \/ \E a \in CircleArgs : crop_at_circle(1, a[1], a[2], a[3], a[4])
    \/ \E center \in {<<MaxDim + 1, MaxDim + 1>>, <<1>>},
          radii \in {<<2, 1>>, <<0, 2>>, <<2, 1, 1>>} : ring(1, center, radii)
    \/ filter_objects(1)
    \/ filter_border2border(1)
    \/ get_corners(1)
    \/ \E src \in {<<4, 2>>, <<4, 1, 2>>, <<3, 2>>}, dst \in {<<4, 2>>, <<4, 1, 2>>} :
          warp(1, src, dst)
    \/ BGR_to_LAB(1)
    \/ LAB_to_BGR(1)
    \/ BGR_to_HSV(1)
    \/ HSV_to_BGR(1)
    \/ BGR_to_GRAY(1)
    \/ to_BGR(1)
    \/ to_GRAY(1)
    \/ to_8UC1(1)
    \/ to_16UC1(1)
    \/ \E K \in {1, MaxDim * MaxDim + 1}, equalize \in BOOLEAN : kmeans(1, K, equalize)
    \/ integral(1)
    \/ \E offset \in {-1, 1} : vertical_shift(1, offset)
    \/ \E offset \in {-1, 1} : horizontal_shift(1, offset)
    \/ \E path \in SavePaths : save(1, path)
    \/ \E sheight \in {-1, 0, 1}, swidth \in {0, 1} : show(1, sheight, swidth)

Spec == Init /\ [][Next]_vars

(***************************************************************************)
(* Properties of the calls.  Each is read in the state a call leaves       *)
(* behind: last is the call, last.shape the shape of self as it began.     *)
(***************************************************************************)
Raised == last.op # "idle" /\ last.exc # "none"
Unchanged == last.kept = Handles

(* C1: every image holds an array whose dimensionality is 2 or 3, and its *)
(* shape, height and width are the extent of the buffer held in data.     *)
C1_DimAndShape ==
    \A h \in live :
        /\ data[h] # None
        /\ dim(h) \in {2, 3}
        /\ shape(h) = data[h].shape
        /\ height(h) = data[h].shape[1] /\ width(h) = data[h].shape[2]
        /\ data[h].r0 + height(h) <= Rows(mem[data[h].mem].shape)
        /\ data[h].c0 + width(h) <= Cols(mem[data[h].mem].shape)

(* C2: a call that raises leaves self.data the buffer, with the pixels,   *)
(* it was before the call, whatever the operation and its arguments.      *)
C2_RaiseKeepsBuffer == Raised => last.h \in last.kept

(* A crop request the documentation forbids: a negative corner, a corner  *)
(* beyond the image, or a top-left corner not strictly above-left of br.  *)
BadCorners(shp, tl, br) ==
    \/ tl[1] < 0 \/ tl[2] < 0
    \/ br[1] > shp[1] \/ br[2] > shp[2]
    \/ tl[1] >= br[1] \/ tl[2] >= br[2]

(* C3: crop raises ValueError for forbidden corners, and then, in place   *)
(* or not, no image is changed and none is returned.                      *)
C3_CropRejects ==
    (last.op = "crop" /\ BadCorners(last.shape, last.args.tl, last.args.br))
        => (last.exc = "ValueError" /\ Unchanged /\ last.ret = <<>>)

C3_Witness ==
    /\ last.op = "crop" /\ ~last.args.inplace
    /\ last.args.tl[1] >= 0 /\ last.args.tl[2] >= 0
    /\ last.args.br[2] > last.shape[2]
    /\ last.exc = "ValueError" /\ Unchanged

(* C4: resize raises ValueError, changing nothing, exactly when the value *)
(* is not positive or the parameter is none of width, height, ratio.      *)
C4_ResizeValidates ==
    last.op = "resize" =>
        IF last.args.value <= 0 \/ last.args.param \notin {"width", "height", "ratio"}
        THEN last.exc = "ValueError" /\ Unchanged /\ last.lib = <<>>
        ELSE last.exc # "ValueError"

C4_Witness ==
    /\ last.op = "resize" /\ last.args.param = "ratio" /\ last.args.value = 0
    /\ last.exc = "ValueError" /\ Unchanged

(* C5: blur raises ValueError, changing nothing, exactly when the size is *)
(* below 3 or even, or the method is none of the four it knows.           *)
C5_BlurValidates ==
    last.op = "blur" =>
        IF \/ last.args.size < 3 \/ last.args.size % 2 = 0
           \/ last.args.method \notin {"gauss", "average", "median", "bilateral"}
        THEN last.exc = "ValueError" /\ Unchanged /\ last.lib = <<>>
        ELSE last.exc # "ValueError"

C5_Witness ==
    /\ last.op = "blur" /\ last.args.size = 4 /\ last.args.method = "median"
    /\ last.exc = "ValueError" /\ Unchanged

(* The file name of the path ends with .jpg, .jpeg or .png. *)
HasImageExtension(path) ==
    /\ Len(path) >= 2
    /\ path[Len(path) - 1] = "."
    /\ <<path[Len(path)]>> \in Extensions

(* C6: save accepts a path exactly when its file name ends with .jpg,     *)
(* .jpeg or .png; it then creates the missing folder and writes the file. *)
(* Any other path raises ValueError and leaves the file system alone.     *)
C6_SaveContract ==
    last.op = "save" =>
        IF HasImageExtension(last.args.path)
        THEN /\ last.exc # "ValueError" /\ Unchanged
             /\ SaveFolder(last.args.path) # <<>> => Exists(fs, SaveFolder(last.args.path))
        ELSE last.exc = "ValueError" /\ last.fsKept /\ Unchanged

(* other is an image whose height or width differs from self's. *)
MismatchedShapes(shp, other) ==
    /\ other \in live /\ data[other] # None
    /\ \/ Len(data[other].shape) < 2
       \/ data[other].shape[1] # shp[1]
       \/ data[other].shape[2] # shp[2]

(* C7: blend raises, before any library call and changing neither image,  *)
(* when other is no Image, alpha is outside [0, 1] or the shapes differ.  *)
C7_BlendRejectsEarly ==
    (/\ last.op = "blend"
     /\ \/ last.args.other = NotAnImage
        \/ last.args.alpha < 0 \/ last.args.alpha > Den
        \/ MismatchedShapes(last.shape, last.args.other))
        => (last.exc # "none" /\ last.lib = <<>> /\ Unchanged)

Only2DOps ==
    {"negate", "equalize_hist", "distance_transform", "sharpen", "open", "close",
     "dilate", "erode", "tophat", "blackhat", "algebric_open", "algebric_dilate",
     "adaptive_threshold", "binarize", "get_circle", "crop_at_circle"}

C9_CopyIndependent ==
    last.op = "deepcopy" =>
        /\ last.exc = "none"
        /\ \A c \in live \ {last.h} : data[c].mem # data[last.h].mem

(* C10: crop_at_circle raises ValueError when center has not two          *)
(* elements, radius is not positive or ratio is not positive; otherwise   *)
(* it raises no validation error.                                         *)
C10_CircleValidates ==
    last.op = "crop_at_circle" =>
        IF \/ Len(last.args.center) # 2
           \/ last.args.radius <= 0
           \/ (~last.args.square /\ last.args.ratio <= 0)
        THEN last.exc = "ValueError" /\ Unchanged
        ELSE last.exc # "ValueError"

(* C11: warp raises ValueError exactly when src or dst is not a 4x2 array; *)
(* with both 4x2 it completes and the image keeps its height, width and   *)
(* channel count.                                                         *)
C11_WarpContract ==
    last.op = "warp" =>
        IF last.args.src # <<4, 2>> \/ last.args.dst # <<4, 2>>
        THEN last.exc = "ValueError"
        ELSE last.exc = "none" /\ shape(last.h) = last.shape

(* C12: ring raises ValueError, changing nothing, when center has not two *)
(* coordinates, radii has not two values, max(radii) is not below half    *)
(* the smaller side of the image, or min(radii) is not positive.          *)
C12_RingRejects ==
    (/\ last.op = "ring"
     /\ \/ Len(last.args.center) # 2
        \/ Len(last.args.radii) # 2
        \/ SeqMax(last.args.radii) >= Min(last.shape[1], last.shape[2]) \div 2
        \/ SeqMin(last.args.radii) <= 0)
        => (last.exc = "ValueError" /\ Unchanged)

(* new is old shifted cyclically along the rows by offset. *)
RowShift(old, new, offset) ==
    /\ new.shape = old.shape
    /\ \A p \in Cells(old.shape) :
           new.px[p] = old.px[<<(p[1] + offset) % Rows(old.shape), p[2]>>]

(* new is old shifted cyclically along the columns by offset. *)
ColumnShift(old, new, offset) ==
    /\ new.shape = old.shape
    /\ \A p \in Cells(old.shape) :
           new.px[p] = old.px[<<p[1], (p[2] + offset) % Cols(old.shape)>>]

(* C13: vertical_shift keeps the shape and moves the rows cyclically: the *)
(* pixel at row r, column c is the one that was at row (r + offset) mod   *)
(* height, column c; horizontal_shift does the same with the columns,     *)
(* modulo width.                                                          *)
C13_ShiftAxes ==
    [][/\ (last = Idle /\ last'.op = "vertical_shift")
           => RowShift(Pixels(data[last'.h], mem), Pixels(data'[last'.h], mem'),
                       last'.args.offset)
       /\ (last = Idle /\ last'.op = "horizontal_shift")
           => ColumnShift(Pixels(data[last'.h], mem), Pixels(data'[last'.h], mem'),
                          last'.args.offset)]_vars

(* C14: after to_16UC1 returns the buffer's element type is uint16, and   *)
(* after to_8UC1 it is uint8, whatever the element type was before.       *)
C14_ElementType ==
    /\ (last.op = "to_16UC1" /\ last.exc = "none")
           => DType(data[last.h], mem) = "uint16"
    /\ (last.op = "to_8UC1" /\ last.exc = "none")
           => DType(data[last.h], mem) = "uint8"

(* The extent of an image of shape shp along the axis split cuts. *)
SplitExtent(shp, direction) ==
    IF direction \in {"h", "horizontal"} THEN shp[1] ELSE shp[2]

(* The index split cuts at. *)
SplitPosition(shp, args) ==
    IF args.mid THEN SplitExtent(shp, args.direction) \div 2 ELSE args.position

(* C15: split at a position inside the image returns two images that     *)
(* partition it: the first holds the rows (columns) before the position,  *)
(* the second those from the position on, so their extents along the cut  *)
(* axis sum to the original's; the image split is left unchanged.         *)
C15_SplitPartitions ==
    (/\ last.op = "split" /\ last.args.direction \in Directions
     /\ SplitPosition(last.shape, last.args) > 0
     /\ SplitPosition(last.shape, last.args) < SplitExtent(last.shape, last.args.direction))
        => /\ last.exc = "none" /\ last.h \in last.kept
           /\ Len(last.ret) = 2
           /\ SplitExtent(last.ret[1].shape, last.args.direction)
                  = SplitPosition(last.shape, last.args)
           /\ SplitExtent(last.ret[1].shape, last.args.direction)
                  + SplitExtent(last.ret[2].shape, last.args.direction)
                  = SplitExtent(last.shape, last.args.direction)

(* C16: a resize call that passes validation hands the library a target   *)
(* width and height of at least 1; with param "height" the target height  *)
(* is int(value), with param "width" the target width is int(value).      *)
C16_ResizeTarget ==
    (/\ last.op = "resize" /\ last.args.param \in ResizeParams /\ last.args.value > 0)
        => LET dsize == ResizeDim(last.shape, last.args.param, last.args.value)
           IN /\ last.lib = <<"resize">>
              /\ dsize[1] >= 1 /\ dsize[2] >= 1
              /\ last.exc = "none"
              /\ last.args.param = "height" => dsize[2] = IntOf(last.args.value)
              /\ last.args.param = "width" => dsize[1] = IntOf(last.args.value)

====
